---- MODULE Spec2Model ----
(***************************************************************************)
(* Model of the Discord timestamp bot: the time_parser utilities           *)
(* (src/utils/time_parser.py) as operators, and the TimestampCog           *)
(* (src/cogs/timestamp.py) as a state machine whose handlers interleave at *)
(* their await points.                                                     *)
(*                                                                         *)
(* A Python str is a sequence of one-character strings.  A datetime is     *)
(* [days, secs, us]: whole days since 1970-01-01 UTC, second of the day,   *)
(* microsecond of the second (what dt - _EPOCH holds).  TLC integers are   *)
(* 32 bits wide where Python's are unbounded, so an epoch second count is  *)
(* kept as [neg, hi, lo] standing for (+/-)(hi * 10^6 + lo).               *)
(***************************************************************************)
EXTENDS Integers, Sequences, FiniteSets, TLC

VARIABLES
    phase,           \* "start" before TimestampCog.__init__, "ready" after it
    file,            \* user_timezones.json on disk
    user_timezones,  \* TimestampCog.user_timezones
    loaded,          \* what _load_timezones returned (history)
    loads,           \* number of times the file has been read (history)
    last_save,       \* outcome of the latest _save_timezones call (history)
    has_set,         \* users whose timezone command has succeeded (history)
    inv,             \* the event loop's tasks: one record per interaction in a slot
    escaped,         \* whether a handler has let an exception escape
    u_call,          \* time_parser call under test: which function
    u_text,          \* its str argument (duration_str / format_type)
    u_dt,            \* its datetime argument (now / dt)
    u_out            \* its result

botvars == <<phase, file, user_timezones, loaded, loads, last_save, has_set, inv, escaped>>
utilvars == <<u_call, u_text, u_dt, u_out>>
vars == <<phase, file, user_timezones, loaded, loads, last_save, has_set, inv, escaped,
          u_call, u_text, u_dt, u_out>>

(***************************************************************************)
(* Python str primitives                                                   *)
(***************************************************************************)
DigitChars == <<"0", "1", "2", "3", "4", "5", "6", "7", "8", "9">>
UpperChars == <<"A", "B", "C", "D", "E", "F", "G", "H", "I", "J", "K", "L", "M",
                "N", "O", "P", "Q", "R", "S", "T", "U", "V", "W", "X", "Y", "Z">>
LowerChars == <<"a", "b", "c", "d", "e", "f", "g", "h", "i", "j", "k", "l", "m",
                "n", "o", "p", "q", "r", "s", "t", "u", "v", "w", "x", "y", "z">>

DigitSet == {DigitChars[i] : i \in 1..10}
UpperSet == {UpperChars[i] : i \in 1..26}
DigitValue == [c \in DigitSet |-> (CHOOSE i \in 1..10 : DigitChars[i] = c) - 1]
LowerOf == [c \in UpperSet |-> LowerChars[CHOOSE i \in 1..26 : UpperChars[i] = c]]

IsDigit(c) == c \in DigitSet
IsSpace(c) == c \in {" ", "\t"}
DigitVal(c) == DigitValue[c]

\* str.lower(), one character
LowerChar(c) == IF c \in UpperSet THEN LowerOf[c] ELSE c

\* str.lower()
RECURSIVE lower(_)
lower(s) == IF s = <<>> THEN <<>> ELSE <<LowerChar(Head(s))>> \o lower(Tail(s))

\* str.strip(): drop the leading and the trailing whitespace
strip(s) ==
    LET keep == {i \in 1..Len(s) : ~IsSpace(s[i])}
    IN  IF keep = {} THEN <<>>
        ELSE SubSeq(s, CHOOSE i \in keep : \A j \in keep : i <= j,
                       CHOOSE i \in keep : \A j \in keep : i >= j)

\* int(str) of a run of decimal digits
RECURSIVE int(_)
int(ds) ==
    IF ds = <<>> THEN 0
    ELSE 10 * int(SubSeq(ds, 1, Len(ds) - 1)) + DigitVal(ds[Len(ds)])

\* str(int) of a natural number
RECURSIVE str(_)
str(n) ==
    IF n < 10 THEN <<DigitChars[n + 1]>>
    ELSE str(n \div 10) \o <<DigitChars[(n % 10) + 1]>>

(***************************************************************************)
(* re.search of r'(\d+)\s*(?:a1|a2|a3)s?'                                  *)
(***************************************************************************)
hour_pattern == << <<"h", "o", "u", "r">>, <<"h", "r">>, <<"h">> >>
minute_pattern == << <<"m", "i", "n", "u", "t", "e">>, <<"m", "i", "n">>, <<"m">> >>

\* length of the longest run of characters satisfying digit/space at position p
RECURSIVE DigitRun(_, _)
DigitRun(s, p) ==
    IF p <= Len(s) /\ IsDigit(s[p]) THEN 1 + DigitRun(s, p + 1) ELSE 0

RECURSIVE SpaceRun(_, _)
SpaceRun(s, p) ==
    IF p <= Len(s) /\ IsSpace(s[p]) THEN 1 + SpaceRun(s, p + 1) ELSE 0

HasPrefixAt(s, p, w) ==
    /\ p + Len(w) - 1 <= Len(s)
    /\ \A i \in 1..Len(w) : s[p + i - 1] = w[i]

NoMatch == [found |-> FALSE, group1 |-> <<>>]

\* The match anchored at p: \d+ takes k digits, \s* takes j blanks, then one of
\* the alternatives; the trailing s? matches either way.  Greedy \d+ keeps the
\* largest k that lets the rest match.  group1 is group(1).
MatchAt(alts, s, p) ==
    LET ks == {k \in 1..DigitRun(s, p) :
                  \E j \in 0..SpaceRun(s, p + k) :
                      \E a \in 1..Len(alts) : HasPrefixAt(s, p + k + j, alts[a])}
    IN  IF ks = {} THEN NoMatch
        ELSE [found |-> TRUE,
              group1 |-> SubSeq(s, p, p + (CHOOSE k \in ks : \A k2 \in ks : k >= k2) - 1)]

\* re.search: the match at the leftmost position that has one
RECURSIVE SearchFrom(_, _, _)
SearchFrom(alts, s, p) ==
    IF p > Len(s) THEN NoMatch
    ELSE IF ~IsDigit(s[p]) THEN SearchFrom(alts, s, p + 1)
    ELSE LET m == MatchAt(alts, s, p)
         IN  IF m.found THEN m ELSE SearchFrom(alts, s, p + 1)

search(alts, s) == SearchFrom(alts, s, 1)

(***************************************************************************)
(* datetime and timedelta                                                  *)
(***************************************************************************)
\* date.max (9999-12-31) in days since 1970-01-01
MaxDay == 2932896
\* the largest timedelta.days
MaxDeltaDays == 999999999

NoInstant == [days |-> 0, secs |-> 0, us |-> 0]
Returned(dt) == [exc |-> "none", value |-> dt]
Raised(e) == [exc |-> e, value |-> NoInstant]

\* timedelta(hours=hours, minutes=minutes), normalised to days and seconds.
\* Python computes divmod(hours * 3600 + minutes * 60, 86400); the hours are
\* split first so that the same value is reached within 32 bits.
timedelta(hours, minutes) ==
    LET mins == (hours % 24) * 60 + minutes
        days == (hours \div 24) + (mins \div 1440)
    IN  IF days > MaxDeltaDays THEN Raised("OverflowError")
        ELSE [exc |-> "none", days |-> days, seconds |-> (mins % 1440) * 60]

\* datetime + timedelta: OverflowError("date value out of range") past date.max
datetime_add(now, delta) ==
    LET s == now.secs + delta.seconds
        d == now.days + delta.days + (s \div 86400)
    IN  IF d > MaxDay THEN Raised("OverflowError")
        ELSE Returned([days |-> d, secs |-> s % 86400, us |-> now.us])

\* parse_relative_time(duration_str), with now = datetime.now(pytz.UTC)
parse_relative_time(duration_str, now) ==
    LET s == strip(lower(duration_str))
        hour_match == search(hour_pattern, s)
        minute_match == search(minute_pattern, s)
        hours == IF hour_match.found THEN int(hour_match.group1) ELSE 0
        minutes == IF minute_match.found THEN int(minute_match.group1) ELSE 0
    IN  IF hours = 0 /\ minutes = 0 THEN Raised("ValueError")
        ELSE LET delta == timedelta(hours, minutes)
             IN  IF delta.exc # "none" THEN Raised(delta.exc)
                 ELSE datetime_add(now, delta)

(***************************************************************************)
(* int(dt.timestamp()) and generate_discord_timestamp                      *)
(***************************************************************************)
Big(neg, hi, lo) == [neg |-> neg, hi |-> hi, lo |-> lo]

\* days * 86400 + offset as hi * 10^6 + lo, for days >= 0 and a result >= 0
BigSeconds(days, offset) ==
    LET dh == days \div 1000
        dl == days % 1000
        low == dh * 400000 + dl * 86400 + offset
    IN  [hi |-> dh * 86 + (low \div 1000000), lo |-> low % 1000000]

BigSucc(b) ==
    IF b.lo = 999999 THEN [hi |-> b.hi + 1, lo |-> 0] ELSE [hi |-> b.hi, lo |-> b.lo + 1]

BigGeq(a, b) == a.hi > b.hi \/ (a.hi = b.hi /\ a.lo >= b.lo)

\* 2^e for the exponents an epoch second count of a datetime can have past 2^34
Pow2(e) ==
    CASE e = 34 -> [hi |-> 17179, lo |-> 869184]
      [] e = 35 -> [hi |-> 34359, lo |-> 738368]
      [] e = 36 -> [hi |-> 68719, lo |-> 476736]
      [] e = 37 -> [hi |-> 137438, lo |-> 953472]
      [] e = 38 -> [hi |-> 274877, lo |-> 906944]

\* The whole seconds m and the microseconds g of |dt - _EPOCH|.
Magnitude(dt) ==
    IF dt.days >= 0
    THEN [neg |-> FALSE, m |-> BigSeconds(dt.days, dt.secs), g |-> dt.us]
    ELSE IF dt.us = 0
         THEN [neg |-> TRUE, m |-> BigSeconds(-dt.days, -dt.secs), g |-> 0]
         ELSE [neg |-> TRUE, m |-> BigSeconds(-dt.days, -dt.secs - 1), g |-> 1000000 - dt.us]

\* dt.timestamp() is the float (IEEE double, 53 bits) nearest to m + g / 10^6.
\* For m in [2^e, 2^(e+1)) the doubles are 2^(e-52) apart, so the float is the
\* whole number m + 1 when 1 - g / 10^6 is under half that spacing: when
\* (10^6 - g) * 2^(53-e) < 10^6, which needs e >= 34.  int() then truncates.
FloatCarries(m, g) ==
    /\ g > 0
    /\ \E e \in 34..37 :
          /\ BigGeq(m, Pow2(e))
          /\ ~BigGeq(m, Pow2(e + 1))
          /\ 1000000 - g <= 999999 \div (2 ^ (53 - e))

\* int(dt.timestamp())
timestamp(dt) ==
    LET a == Magnitude(dt)
        r == IF FloatCarries(a.m, a.g) THEN BigSucc(a.m) ELSE a.m
    IN  Big(a.neg /\ (r.hi > 0 \/ r.lo > 0), r.hi, r.lo)

\* str() of an int held as [neg, hi, lo]
BigStr(b) ==
    LET low == str(b.lo)
        pad == [i \in 1..(6 - Len(low)) |-> "0"]
    IN  (IF b.neg THEN <<"-">> ELSE <<>>)
        \o (IF b.hi = 0 THEN low ELSE str(b.hi) \o pad \o low)

\* generate_discord_timestamp(dt, format_type): f"<t:{timestamp}:{format_type}>"
generate_discord_timestamp(dt, format_type) ==
    <<"<", "t", ":">> \o BigStr(timestamp(dt)) \o <<":">> \o format_type \o <<">">>

(***************************************************************************)
(* Bounds and input sets                                                   *)
(***************************************************************************)
NumUsers == 2
MaxTasks == 2

Users == 1..NumUsers

\* A sample of the IANA database pytz ships, and the names users type.
KnownZones == {"UTC", "Asia/Tokyo", "Europe/London"}
ZoneArgs == {"Asia/Tokyo", "Europe/London", "Mars/Phobos"}

W_hour == <<"h", "o", "u", "r">>
W_hours == <<"h", "o", "u", "r", "s">>
W_minutes == <<"m", "i", "n", "u", "t", "e", "s">>
W_months == <<"m", "o", "n", "t", "h", "s">>
W_invalid == <<"i", "n", "v", "a", "l", "i", "d">>
W_duration == <<"d", "u", "r", "a", "t", "i", "o", "n">>
SP == <<" ">>

T_2h15m == <<"2">> \o SP \o W_hours \o SP \o <<"1", "5">> \o SP \o W_minutes
T_invalid == W_invalid \o SP \o W_duration
T_5months == <<"5">> \o SP \o W_months
T_huge == <<"1", "0", "0", "0", "0", "0", "0", "0", "0">> \o SP \o W_hours

\* datetime.now(pytz.UTC): 2026-11-02 12:00:00 and 2026-11-02 23:59:59.999999
Nows == {[days |-> 20759, secs |-> 43200, us |-> 0],
         [days |-> 20759, secs |-> 86399, us |-> 999999]}

\* what the in command is given
InDurations == {T_2h15m, T_invalid, T_huge}

\* what the timestamp command is given, and what dateparser.parse makes of it
TimeStrings == {"today 3pm", "xyz invalid time"}
NotParsed == [found |-> FALSE, dt |-> NoInstant]
Parsed(dt) == [found |-> TRUE, dt |-> dt]
dateparser_parse(time_str) ==
    IF time_str = "xyz invalid time" THEN {NotParsed}
    ELSE {Parsed([days |-> 20759, secs |-> 54000, us |-> 0])}

(***************************************************************************)
(* The timezone preference store (TimestampCog)                            *)
(***************************************************************************)
EmptyDict == [k \in {} |-> ""]
Dict(m) == [isdict |-> TRUE, map |-> m]
\* a JSON value that is no object (a list, a string, a number, null)
NotADict == [isdict |-> FALSE, map |-> EmptyDict]
Put_DroppingOthers(m, k, v) == [x \in {k} |-> v]
Put(m, k, v) == [x \in (DOMAIN m) \cup {k} |-> IF x = k THEN v ELSE m[x]]

Absent == [kind |-> "absent", map |-> EmptyDict]
Malformed == [kind |-> "malformed", map |-> EmptyDict]
Unreadable == [kind |-> "unreadable", map |-> EmptyDict]
NonObject == [kind |-> "nonobject", map |-> EmptyDict]
Object(m) == [kind |-> "object", map |-> m]

\* user_timezones.json as the process finds it at startup
InitialFiles ==
    {Absent, Malformed, Unreadable, NonObject, Object(EmptyDict),
     Object(Put(EmptyDict, str(2), "Mars/Phobos"))}

pytz_timezone_AcceptAll(name) == "none"

\* pytz.timezone(name): UnknownTimeZoneError for a name outside the database
pytz_timezone(name) ==
    IF name \in KnownZones THEN "none" ELSE "UnknownTimeZoneError"

\* open(file, 'r') and json.load(f)
json_load(f) ==
    CASE f.kind = "unreadable" -> [exc |-> "OSError", value |-> Dict(EmptyDict)]
      [] f.kind = "malformed" -> [exc |-> "JSONDecodeError", value |-> Dict(EmptyDict)]
      [] f.kind = "nonobject" -> [exc |-> "none", value |-> NotADict]
      [] f.kind = "object" -> [exc |-> "none", value |-> Dict(f.map)]

\* TimestampCog._load_timezones: [exc, value]; exc is what escapes it
_load_timezones(f) ==
    IF f.kind # "absent"
    THEN LET r == json_load(f)
         IN  IF r.exc = "none" THEN [exc |-> "none", value |-> r.value]
             ELSE [exc |-> "none", value |-> Dict(EmptyDict)]
    ELSE [exc |-> "none", value |-> Dict(EmptyDict)]

\* TimestampCog._save_timezones: the file after the call.  open(file, 'w') may
\* fail (the file stays), json.dump may fail after open truncated the file (a
\* partial file stays), and either failure is caught and printed.
SaveOutcomes == {"ok", "open_fails", "write_fails"}

_save_timezones_NoWrite(store, f, outcome) ==
    CASE outcome = "ok" -> [file |-> f, printed |-> 0, exc |-> "none"]
      [] outcome = "open_fails" -> [file |-> f, printed |-> 1, exc |-> "none"]
      [] outcome = "write_fails" -> [file |-> Malformed, printed |-> 1, exc |-> "none"]

_save_timezones_Raising(store, f, outcome) ==
    CASE outcome = "ok" -> [file |-> Object(store.map), printed |-> 0, exc |-> "none"]
      [] outcome = "open_fails" -> [file |-> f, printed |-> 0, exc |-> "OSError"]
      [] outcome = "write_fails" -> [file |-> Malformed, printed |-> 0, exc |-> "OSError"]

_save_timezones(store, f, outcome) ==
    CASE outcome = "ok" -> [file |-> Object(store.map), printed |-> 0, exc |-> "none"]
      [] outcome = "open_fails" -> [file |-> f, printed |-> 1, exc |-> "none"]
      [] outcome = "write_fails" -> [file |-> Malformed, printed |-> 1, exc |-> "none"]

_get_user_timezone_NoDefault(store, user_id) ==
    IF ~store.isdict THEN [exc |-> "AttributeError", value |-> ""]
    ELSE IF str(user_id) \in DOMAIN store.map
         THEN [exc |-> "none", value |-> store.map[str(user_id)]]
         ELSE [exc |-> "none", value |-> "None"]

\* TimestampCog._get_user_timezone: dict.get(str(user_id), "UTC")
_get_user_timezone(store, user_id) ==
    IF ~store.isdict THEN [exc |-> "AttributeError", value |-> ""]
    ELSE IF str(user_id) \in DOMAIN store.map
         THEN [exc |-> "none", value |-> store.map[str(user_id)]]
         ELSE [exc |-> "none", value |-> "UTC"]

\* parse_natural_time(time_str, user_timezone), given dateparser's answer
parse_natural_time(parsed, user_timezone) ==
    IF pytz_timezone(user_timezone) # "none" THEN Raised("ValueError")
    ELSE IF ~parsed.found THEN Raised("ValueError")
    ELSE Returned(parsed.dt)

(***************************************************************************)
(* The command handlers, up to their await of send_message                 *)
(***************************************************************************)
NoMarkup == <<>>
Reply(kind, clause, ephemeral, markup) ==
    [kind |-> kind, clause |-> clause, ephemeral |-> ephemeral, markup |-> markup]

except_clause_NoCatchAll(cmd, exc) ==
    IF cmd = "timezone"
    THEN IF exc = "UnknownTimeZoneError" THEN "unknown_timezone" ELSE "escapes"
    ELSE IF exc = "ValueError" THEN "value_error" ELSE "escapes"

\* The except clause of a handler that catches exc; every exception raised
\* here derives from Exception, so the last clause takes what the first leaves.
except_clause(cmd, exc) ==
    IF cmd = "timezone"
    THEN IF exc = "UnknownTimeZoneError" THEN "unknown_timezone" ELSE "exception"
    ELSE IF exc = "ValueError" THEN "value_error" ELSE "exception"

\* The send_message calls a handler makes once exc is raised in its try block:
\* one from the clause that catches it, always with ephemeral=True.
error_reply(cmd, exc) ==
    LET clause == except_clause(cmd, exc)
    IN  IF clause = "escapes" THEN <<>>
        ELSE <<Reply("error", clause, TRUE, NoMarkup)>>

\* TimestampCog.timestamp_command
timestamp_command(store, user_id, parsed) ==
    LET user_tz == _get_user_timezone(store, user_id)
        dt == parse_natural_time(parsed, user_tz.value)
    IN  IF user_tz.exc # "none"
        THEN [exc |-> user_tz.exc, tz |-> "", reply |-> error_reply("timestamp", user_tz.exc)]
        ELSE IF dt.exc # "none"
        THEN [exc |-> dt.exc, tz |-> user_tz.value, reply |-> error_reply("timestamp", dt.exc)]
        ELSE [exc |-> "none", tz |-> user_tz.value,
              reply |-> <<Reply("ok", "success", FALSE,
                                generate_discord_timestamp(dt.value, <<"F">>))>>]

\* TimestampCog.in_command
in_command(duration, now) ==
    LET dt == parse_relative_time(duration, now)
    IN  IF dt.exc # "none"
        THEN [exc |-> dt.exc, reply |-> error_reply("in", dt.exc)]
        ELSE [exc |-> "none",
              reply |-> <<Reply("ok", "success", FALSE,
                                generate_discord_timestamp(dt.value, <<"R">>))>>]

\* TimestampCog.timezone_command: validate, update the dict, save, confirm
timezone_command(store, f, user_id, timezone, outcome) ==
    LET unchanged(exc) ==
            [exc |-> exc, store |-> store, file |-> f, printed |-> 0, save |-> "none",
             reply |-> error_reply("timezone", exc)]
    IN  IF pytz_timezone(timezone) # "none" THEN unchanged(pytz_timezone(timezone))
        ELSE IF ~store.isdict THEN unchanged("TypeError")
        ELSE LET updated == Dict(Put(store.map, str(user_id), timezone))
                 saved == _save_timezones(updated, f, outcome)
             IN  IF saved.exc # "none"
                 THEN [exc |-> saved.exc, store |-> updated, file |-> saved.file,
                       printed |-> saved.printed, save |-> "failed",
                       reply |-> error_reply("timezone", saved.exc)]
                 ELSE [exc |-> "none", store |-> updated, file |-> saved.file,
                       printed |-> saved.printed,
                       save |-> IF saved.printed = 0 THEN "ok" ELSE "failed",
                       reply |-> <<Reply("ok", "success", TRUE, NoMarkup)>>]

(***************************************************************************)
(* The bot as a state machine                                              *)
(***************************************************************************)
Commands == {"timestamp", "in", "timezone"}
Args(cmd) ==
    CASE cmd = "timestamp" -> TimeStrings
      [] cmd = "in" -> InDurations
      [] cmd = "timezone" -> ZoneArgs

\* A task slot of the event loop: free, or the interaction it is handling.
Slots == 1..MaxTasks
FreeSlot ==
    [user |-> 0, cmd |-> "none", arg |-> "", state |-> "free", exc |-> "none",
     tz |-> "", save |-> "none", reply |-> <<>>]
Available == {j \in Slots : inv[j].state = "free"}

NoResult == [exc |-> "none", value |-> NoInstant, markup |-> <<>>]
UtilIdle ==
    /\ u_call = "idle"
    /\ u_text = <<>>
    /\ u_dt = NoInstant
    /\ u_out = NoResult

Init ==
    /\ phase = "start"
    /\ file \in InitialFiles
    /\ user_timezones = Dict(EmptyDict)
    /\ loaded = Dict(EmptyDict)
    /\ loads = 0
    /\ last_save = "none"
    /\ has_set = {}
    /\ inv = [i \in Slots |-> FreeSlot]
    /\ escaped = FALSE
    /\ UtilIdle

\* bot.py setup_hook -> cogs.timestamp.setup -> TimestampCog.__init__
setup ==
    /\ phase = "start"
    /\ LET r == _load_timezones(file)
       IN  IF r.exc # "none"
           THEN /\ phase' = "crashed"
                /\ UNCHANGED <<user_timezones, loaded, loads>>
           ELSE /\ phase' = "ready"
                /\ user_timezones' = r.value
                /\ loaded' = r.value
                /\ loads' = loads + 1
    /\ UNCHANGED <<file, last_save, has_set, inv, escaped, utilvars>>

\* discord.py creates a task for an incoming interaction; the task takes the
\* lowest free slot.
Dispatch(user_id, cmd, arg) ==
    /\ phase = "ready"
    /\ Available # {}
    /\ LET i == CHOOSE j \in Available : \A k \in Available : j <= k
       IN  inv' = [inv EXCEPT ![i] = [user |-> user_id, cmd |-> cmd, arg |-> arg,
                                     state |-> "dispatched", exc |-> "none", tz |-> "",
                                     save |-> "none", reply |-> <<>>]]
    /\ UNCHANGED <<phase, file, user_timezones, loaded, loads, last_save, has_set,
                   escaped, utilvars>>

Ran(i, r, tz, save) ==
    inv' = [inv EXCEPT ![i].state = "responding", ![i].arg = "", ![i].exc = r.exc,
                       ![i].tz = tz, ![i].save = save, ![i].reply = r.reply]

RunTimestamp(i) ==
    /\ inv[i].state = "dispatched" /\ inv[i].cmd = "timestamp"
    /\ \E parsed \in dateparser_parse(inv[i].arg) :
          LET r == timestamp_command(user_timezones, inv[i].user, parsed)
          IN  Ran(i, r, r.tz, "none")
    /\ UNCHANGED <<phase, file, user_timezones, loaded, loads, last_save, has_set,
                   escaped, utilvars>>

RunIn(i) ==
    /\ inv[i].state = "dispatched" /\ inv[i].cmd = "in"
    /\ \E now \in Nows :
          LET r == in_command(inv[i].arg, now)
          IN  Ran(i, r, "", "none")
    /\ UNCHANGED <<phase, file, user_timezones, loaded, loads, last_save, has_set,
                   escaped, utilvars>>

RunTimezone(i) ==
    /\ inv[i].state = "dispatched" /\ inv[i].cmd = "timezone"
    /\ \E outcome \in SaveOutcomes :
          LET r == timezone_command(user_timezones, file, inv[i].user, inv[i].arg, outcome)
          IN  /\ Ran(i, r, "", r.save)
              /\ user_timezones' = r.store
              /\ file' = r.file
              /\ last_save' = IF r.save = "none" THEN last_save ELSE r.save
              /\ has_set' = IF r.exc = "none"
                            THEN has_set \cup {inv[i].user} ELSE has_set
    /\ UNCHANGED <<phase, loaded, loads, escaped, utilvars>>

\* The awaited interaction.response.send_message completes, the handler
\* returns and its task ends; an exception no clause caught leaves the handler
\* instead, with nothing sent.
Deliver(i) ==
    /\ inv[i].state = "responding"
    /\ inv' = [inv EXCEPT ![i] = FreeSlot]
    /\ escaped' = IF inv[i].exc # "none" /\ inv[i].reply = <<>> THEN TRUE ELSE escaped
    /\ UNCHANGED <<phase, file, user_timezones, loaded, loads, last_save, has_set,
                   utilvars>>

Next ==
    \/ setup
    \/ \E u \in Users, cmd \in Commands : \E arg \in Args(cmd) : Dispatch(u, cmd, arg)
    \/ \E i \in Slots : RunTimestamp(i)
    \/ \E i \in Slots : RunIn(i)
    \/ \E i \in Slots : RunTimezone(i)
    \/ \E i \in Slots : Deliver(i)

Spec == Init /\ [][Next]_vars

(***************************************************************************)
(* Properties of the store and of the handlers                             *)
(***************************************************************************)
Key(u) == str(u)
Get(store, u) == _get_user_timezone(store, u).value
Responding(i) == inv[i].state = "responding"

\* The step in which slot i's handler runs up to its await.
RunStep(i, cmd) ==
    /\ inv[i].state = "dispatched"
    /\ inv[i].cmd = cmd
    /\ inv'[i].state = "responding"

\* The step in which slot i's timezone command succeeds (store.set succeeds).
SetStep(i) == RunStep(i, "timezone") /\ inv'[i].exc = "none"

Confirmation == <<Reply("ok", "success", TRUE, NoMarkup)>>

\* C1: once the timezone command succeeds for (u, tz), get(u) returns tz until
\* u's next successful set: a step changes an entry only if it is a successful
\* set by that entry's user, which leaves the entry at the name given; no
\* other step (timestamp, in, rejected or other users' sets, replies) changes
\* or removes an entry.
C1_SetThenGet ==
    [][(phase = "ready" /\ user_timezones.isdict) =>
         /\ user_timezones'.isdict
         /\ DOMAIN user_timezones.map \subseteq DOMAIN user_timezones'.map
         /\ \A i \in Slots :
               SetStep(i) =>
                 /\ inv[i].arg \in KnownZones
                 /\ Get(user_timezones', inv[i].user) = inv[i].arg
         /\ \A k \in DOMAIN user_timezones'.map :
               (k \notin DOMAIN user_timezones.map
                  \/ user_timezones'.map[k] # user_timezones.map[k])
               => \E i \in Slots : SetStep(i) /\ Key(inv[i].user) = k
      ]_vars

\* C1 witness: both users have set a zone, user 1's entry stands while a
\* rejected set by user 1 and a set by user 2 are in flight.
C1_Witness ==
    /\ user_timezones.isdict
    /\ has_set = {1, 2}
    /\ Get(user_timezones, 1) = "Asia/Tokyo"
    /\ Get(user_timezones, 2) = "Europe/London"
    /\ \E i, j \in Slots :
          /\ Responding(i) /\ inv[i].user = 1 /\ inv[i].exc = "UnknownTimeZoneError"
          /\ Responding(j) /\ inv[j].user = 2 /\ inv[j].cmd = "timezone"
          /\ inv[j].exc = "none"

\* C2: starting from an empty store, get(u) is "UTC" for every user with no
\* successful set so far, and the timestamp command of such a user resolves
\* its text with timezone "UTC".
C2_DefaultUTC ==
    /\ []((phase = "ready" /\ loaded = Dict(EmptyDict)) =>
            \A u \in Users \ has_set : _get_user_timezone(user_timezones, u)
                                          = [exc |-> "none", value |-> "UTC"])
    /\ [][\A i \in Slots :
            (RunStep(i, "timestamp") /\ loaded = Dict(EmptyDict)
               /\ inv[i].user \notin has_set)
            => inv'[i].tz = "UTC"
         ]_vars

\* C2 witness: user 1 has set a zone, user 2 has only had a set rejected and
\* its timestamp command has resolved with UTC.
C2_Witness ==
    /\ loaded = Dict(EmptyDict)
    /\ has_set = {1}
    /\ \E i, j \in Slots :
          /\ Responding(i) /\ inv[i].user = 2 /\ inv[i].cmd = "timestamp"
          /\ inv[i].tz = "UTC" /\ inv[i].exc = "none"
          /\ Responding(j) /\ inv[j].user = 2 /\ inv[j].exc = "UnknownTimeZoneError"

\* C3: a timezone command with a name outside the IANA database changes
\* neither the in-memory mapping nor the file, performs no write, and answers
\* with the InvalidTimezone error reply; starting from an empty store, every
\* value the store holds is a valid name.
C3_InvalidRejected ==
    /\ [][\A i \in Slots :
            (RunStep(i, "timezone") /\ inv[i].arg \notin KnownZones)
            => /\ user_timezones' = user_timezones
               /\ file' = file
               /\ last_save' = last_save
               /\ inv'[i].save = "none"
               /\ inv'[i].exc = "UnknownTimeZoneError"
               /\ inv'[i].reply = <<Reply("error", "unknown_timezone", TRUE, NoMarkup)>>
         ]_vars
    /\ []((phase = "ready" /\ loaded = Dict(EmptyDict)) =>
            /\ user_timezones.isdict
            /\ \A k \in DOMAIN user_timezones.map :
                  user_timezones.map[k] \in KnownZones)

\* C3 witness: a set with an unknown name has been rejected while the store
\* and the file hold an entry.
C3_Witness ==
    /\ loaded = Dict(EmptyDict)
    /\ file = Object(user_timezones.map)
    /\ DOMAIN user_timezones.map # {}
    /\ \E i \in Slots :
          /\ Responding(i) /\ inv[i].cmd = "timezone"
          /\ inv[i].exc = "UnknownTimeZoneError"
          /\ Key(inv[i].user) \notin DOMAIN user_timezones.map

\* C7: every invocation ends with exactly one reply and no exception leaves a
\* handler or the startup: a handler at its await has exactly one message to
\* send; InvalidTimezone, UnparseableTime and UnparseableDuration give the
\* error reply of the clause that catches them; every error reply is ephemeral.
C7_OneReplyNoCrash ==
    /\ ~escaped
    /\ phase # "crashed"
    /\ \A i \in Slots :
          Responding(i) =>
            /\ Len(inv[i].reply) = 1
            /\ (inv[i].exc = "none") = (inv[i].reply[1].kind = "ok")
            /\ inv[i].reply[1].kind = "error" => inv[i].reply[1].ephemeral
            /\ inv[i].exc = "ValueError" => inv[i].reply[1].clause = "value_error"
            /\ inv[i].exc = "UnknownTimeZoneError"
                 => inv[i].reply[1].clause = "unknown_timezone"

\* C7 witness: an in command whose duration overflowed and a timestamp
\* command over a store that is no dict are both answered with an error.
C7_Witness ==
    \E i, j \in Slots :
        /\ Responding(i) /\ inv[i].cmd = "in" /\ inv[i].exc = "OverflowError"
        /\ inv[i].reply = <<Reply("error", "exception", TRUE, NoMarkup)>>
        /\ Responding(j) /\ inv[j].cmd = "timestamp" /\ inv[j].exc = "AttributeError"

\* Two set calls for different users, both run and both still awaiting their
\* reply: concurrently dispatched, neither finished.
ConcurrentSets(i, j) ==
    /\ i # j
    /\ Responding(i) /\ inv[i].cmd = "timezone" /\ inv[i].exc = "none"
    /\ Responding(j) /\ inv[j].cmd = "timezone" /\ inv[j].exc = "none"
    /\ inv[i].user # inv[j].user

FileHolds(u) ==
    /\ file.kind = "object"
    /\ Key(u) \in DOMAIN file.map
    /\ file.map[Key(u)] = user_timezones.map[Key(u)]

C9_WriteFailureKeepsMemory ==
    /\ [][\A i \in Slots :
            (RunStep(i, "timezone") /\ inv'[i].save = "failed")
            => /\ user_timezones'.isdict
               /\ user_timezones'.map
                    = [k \in (DOMAIN user_timezones.map) \cup {Key(inv[i].user)} |->
                         IF k = Key(inv[i].user) THEN inv[i].arg
                         ELSE user_timezones.map[k]]
               /\ Get(user_timezones', inv[i].user) = inv[i].arg
               /\ inv'[i].exc = "none"
               /\ inv'[i].reply = Confirmation
               /\ last_save' = "failed"
         ]_vars
    /\ [][(phase = "ready" /\ user_timezones' # user_timezones)
            => \E i \in Slots : SetStep(i)]_vars
    /\ [](\A i \in Slots :
            (Responding(i) /\ inv[i].save = "failed") => inv[i].reply = Confirmation)

\* C9 witness: user 2's set was confirmed although its write failed; the
\* mapping holds its value and user 1's, and the file holds neither write.
C9_Witness ==
    /\ last_save = "failed"
    /\ file # Object(user_timezones.map)
    /\ Get(user_timezones, 1) = "Asia/Tokyo"
    /\ Get(user_timezones, 2) = "Europe/London"
    /\ \E i \in Slots :
          /\ Responding(i) /\ inv[i].user = 2 /\ inv[i].save = "failed"
          /\ inv[i].reply = Confirmation

\* What C10 says the store is after the load.
ExpectedStore(f) == IF f.kind = "object" THEN Dict(f.map) ELSE Dict(EmptyDict)

\* C10 as stated: the store is loaded once; it is the file's mapping when the
\* file is a well-formed mapping and the empty mapping otherwise; startup does
\* not fail and the file is not read again.
C10_Original ==
    /\ [][(phase = "start" /\ phase' # "start")
            => (phase' = "ready" /\ user_timezones' = ExpectedStore(file))]_vars
    /\ [](loads <= 1)
    /\ [](phase = "ready" => loads = 1)

(***************************************************************************)
(* The time_parser functions called on their own                           *)
(***************************************************************************)
W_h == <<"h">>
W_hr == <<"h", "r">>
W_hrs == <<"h", "r", "s">>
W_m == <<"m">>
W_min == <<"m", "i", "n">>
W_mins == <<"m", "i", "n", "s">>
W_minute == <<"m", "i", "n", "u", "t", "e">>
W_hello == <<"h", "e", "l", "l", "o">>
W_days == <<"d", "a", "y", "s">>

Join(n, g, w) == n \o g \o w

\* one quantity: a digit run, an optional blank, a word
Quantities ==
    {Join(n, g, w) :
        n \in {<<"0">>, <<"3">>, <<"9", "0">>},
        g \in {<<>>, SP},
        w \in {W_h, W_hr, W_hrs, W_hour, W_hours, W_m, W_min, W_mins, W_minute,
               W_minutes, W_months, W_hello, W_days}}

\* the quantities that are put side by side
PairQuantities ==
    {Join(n, g, w) :
        n \in {<<"0">>, <<"2">>},
        g \in {<<>>, SP},
        w \in {W_h, W_hours, W_m, W_mins, W_months}}

T_1h30m == <<"1", "h", " ", "3", "0", "m">>
T_repeated == <<"1">> \o SP \o W_hour \o SP \o <<"2">> \o SP \o W_hour \o SP
              \o <<"3">> \o SP \o W_minutes
T_padded == <<" ", "2", " ", "H", "o", "u", "r", "s", "\t", "1", "5", " ",
              "M", "I", "N", "U", "T", "E", "S", " ">>
T_hugeminutes == <<"9", "9", "9", "9", "9", "9", "9", "9", "9">> \o W_m

\* duration_str
Durations ==
    Quantities
    \cup {a \o SP \o b : a \in PairQuantities, b \in PairQuantities}
    \cup {T_2h15m, T_1h30m, T_repeated, T_padded, T_invalid, T_5months, T_huge,
          T_hugeminutes, <<>>}

\* dt: 2024-01-01 12:00:00, 2600-01-01 00:00:00.999999, 2600-01-01 00:00:00.5,
\* 1969-12-31 23:59:59.5, 1960-01-01 00:00:00, the epoch, 2514-05-30
\* 01:53:03.999999 (the last second under 2^34), datetime.max
Datetimes ==
    {[days |-> 19723, secs |-> 43200, us |-> 0],
     [days |-> 230103, secs |-> 0, us |-> 999999],
     [days |-> 230103, secs |-> 0, us |-> 500000],
     [days |-> -1, secs |-> 86399, us |-> 500000],
     [days |-> -3653, secs |-> 0, us |-> 0],
     [days |-> 0, secs |-> 0, us |-> 0],
     [days |-> 198841, secs |-> 6783, us |-> 999999],
     [days |-> 2932896, secs |-> 86399, us |-> 999999]}

\* format_type: the codes generate_discord_timestamp documents
FormatCodes == {<<"t">>, <<"T">>, <<"d">>, <<"D">>, <<"f">>, <<"F">>, <<"R">>}

BotIdle ==
    /\ phase = "start"
    /\ file = Absent
    /\ user_timezones = Dict(EmptyDict)
    /\ loaded = Dict(EmptyDict)
    /\ loads = 0
    /\ last_save = "none"
    /\ has_set = {}
    /\ inv = [i \in Slots |-> FreeSlot]
    /\ escaped = FALSE

UtilInit ==
    /\ BotIdle
    /\ u_out = NoResult
    /\ \/ u_call = "call_parse" /\ u_text \in Durations /\ u_dt \in Nows
       \/ u_call = "call_format" /\ u_text \in FormatCodes /\ u_dt \in Datetimes

\* dt = parse_relative_time(duration)
ParseRelativeTime ==
    /\ u_call = "call_parse"
    /\ LET r == parse_relative_time(u_text, u_dt)
       IN  u_out' = [exc |-> r.exc, value |-> r.value, markup |-> <<>>]
    /\ u_call' = "ret_parse"
    /\ UNCHANGED <<u_text, u_dt, botvars>>

\* in_command hands the instant it got to generate_discord_timestamp(dt, "R")
InCommandFormats ==
    /\ u_call = "ret_parse"
    /\ u_out.exc = "none"
    /\ u_call' = "call_format"
    /\ u_text' = <<"R">>
    /\ u_dt' = u_out.value
    /\ u_out' = NoResult
    /\ UNCHANGED botvars

\* timestamp = generate_discord_timestamp(dt, format_type)
GenerateDiscordTimestamp ==
    /\ u_call = "call_format"
    /\ u_out' = [exc |-> "none", value |-> u_dt,
                 markup |-> generate_discord_timestamp(u_dt, u_text)]
    /\ u_call' = "ret_format"
    /\ UNCHANGED <<u_text, u_dt, botvars>>

UtilNext ==
    \/ ParseRelativeTime
    \/ InCommandFormats
    \/ GenerateDiscordTimestamp

UtilSpec == UtilInit /\ [][UtilNext]_vars

(***************************************************************************)
(* Properties of parse_relative_time and generate_discord_timestamp        *)
(***************************************************************************)
LowerSet == {LowerChars[i] : i \in 1..26}
IsLetter(c) == c \in LowerSet \cup UpperSet

RECURSIVE LetterRun(_, _)
LetterRun(s, p) ==
    IF p <= Len(s) /\ IsLetter(s[p]) THEN 1 + LetterRun(s, p + 1) ELSE 0

HourTokens == {W_hour, W_hours, W_hr, W_hrs, W_h}
MinuteTokens == {W_minute, W_minutes, W_min, W_mins, W_m}

\* The word that follows, after optional whitespace, the digit run starting at p.
WordAfter(s, p) ==
    LET q == p + DigitRun(s, p) + SpaceRun(s, p + DigitRun(s, p))
    IN  SubSeq(s, q, q + LetterRun(s, q) - 1)

\* The quantity of a unit as the specification describes it: the first digit
\* run of the text that is followed by one of the unit's tokens.
StatedQuantity(tokens, s) ==
    LET starts == {p \in 1..Len(s) :
                      /\ IsDigit(s[p])
                      /\ (p = 1 \/ ~IsDigit(s[p - 1]))
                      /\ WordAfter(s, p) \in tokens}
    IN  IF starts = {} THEN [found |-> FALSE, n |-> 0]
        ELSE LET p == CHOOSE q \in starts : \A r \in starts : q <= r
             IN  [found |-> TRUE, n |-> int(SubSeq(s, p, p + DigitRun(s, p) - 1))]

\* now + (60 * hours + minutes) minutes, whole days taken out of each term first
PlusMinutes(now, hours, minutes) ==
    LET secs == now.secs + (hours % 24) * 3600 + (minutes % 1440) * 60
    IN  [days |-> now.days + (hours \div 24) + (minutes \div 1440) + (secs \div 86400),
         secs |-> secs % 86400,
         us |-> now.us]

\* C4 as stated: whenever parse_relative_time returns, the instant is now plus
\* 60 * hours + minutes minutes, hours and minutes being the first digit runs
\* followed by an hour-unit token and by a minute-unit token, a digit run
\* followed by any other word contributing nothing.
C4_Original ==
    (u_call = "ret_parse" /\ u_out.exc = "none") =>
        LET s == strip(lower(u_text))
        IN  u_out.value = PlusMinutes(u_dt, StatedQuantity(HourTokens, s).n,
                                      StatedQuantity(MinuteTokens, s).n)

\* C5 as stated: parse_relative_time fails with UnparseableDuration
\* (ValueError) exactly when no hour and no minute quantity is found or both
\* are zero, and returns an instant in every other case, however large the
\* quantity.  The quantities are taken as the code's own patterns find them.
C5_Original ==
    u_call = "ret_parse" =>
        LET s == strip(lower(u_text))
            h == search(hour_pattern, s)
            m == search(minute_pattern, s)
            nothing == /\ (h.found => int(h.group1) = 0)
                       /\ (m.found => int(m.group1) = 0)
        IN  /\ (u_out.exc = "ValueError") = nothing
            /\ ~nothing => u_out.exc = "none"

\* The Unix epoch second count of dt with the sub-second part truncated.
TruncatedEpoch(dt) ==
    LET a == Magnitude(dt)
    IN  Big(a.neg /\ (a.m.hi > 0 \/ a.m.lo > 0), a.m.hi, a.m.lo)

\* The number written between "<t:" and the following ":" of a markup.
ExtractEpoch(markup) ==
    LET end == CHOOSE i \in 4..Len(markup) :
                   markup[i] = ":" /\ \A j \in 4..(i - 1) : markup[j] # ":"
        text == SubSeq(markup, 4, end - 1)
        neg == text # <<>> /\ Head(text) = "-"
        digits == IF neg THEN Tail(text) ELSE text
        n == Len(digits)
    IN  IF n <= 6 THEN Big(neg, 0, int(digits))
        ELSE Big(neg, int(SubSeq(digits, 1, n - 6)), int(SubSeq(digits, n - 5, n)))

\* C6 as stated: for every instant and every code of the closed set,
\* generate_discord_timestamp returns "<t:E:code>" with E the truncated epoch
\* second count, and the number between "<t:" and the next ":" is E.
C6_Original ==
    u_call = "ret_format" =>
        /\ u_text \in FormatCodes
        /\ u_out.markup = <<"<", "t", ":">> \o BigStr(TruncatedEpoch(u_dt))
                            \o <<":">> \o u_text \o <<">">>
        /\ ExtractEpoch(u_out.markup) = TruncatedEpoch(u_dt)

====
